---- MODULE Spec2Model ----
(***************************************************************************)
(* Model of the calculation core of src/app.py (Mountain Race Shop         *)
(* pressure-balance app): interp_force, adjuster_authority_percent,        *)
(* critical_damping_target, area_mm2, pressure_bar and compute_table.      *)
(*                                                                         *)
(* Python floats are modelled as binary floating-point numbers with a      *)
(* Prec-bit significand, round-to-nearest-even and an unbounded exponent:  *)
(* a number is a record [m, e] standing for m * 2^e, kept canonical (m odd *)
(* or m = e = 0).  Every arithmetic operation rounds its exact result, as  *)
(* IEEE-754 arithmetic does; overflow, infinities and NaN are not          *)
(* modelled.  A float division by zero raises ZeroDivisionError in Python; *)
(* it is modelled by the value ZeroDivisionError, which every later        *)
(* operation propagates.                                                   *)
(*                                                                         *)
(* The pages around the core are modelled per browser session: the query   *)
(* string, st.session_state (unlocked, subscription_id, email_saved), what *)
(* a script run shows (locked page, e-mail form, sidebar inputs,           *)
(* calculators) and the file customers.csv.  A script run is one step;     *)
(* save_customer_email is three steps (exists() checked, file opened, rows *)
(* written at close), since the sessions run as threads of one process.    *)
(***************************************************************************)
EXTENDS Integers, Sequences, FiniteSets, TLC

VARIABLES op, v, pts, full_pts, x, y, targs, ret, rows, caller_pts,
          query_params, session_state, customers_csv, pc, locals, ui, calc

\* the record of the latest call of a core function
core_vars == <<op, v, pts, full_pts, x, y, targs, ret, rows, caller_pts>>

\* the sessions and the customer log
session_vars == <<query_params, session_state, customers_csv, pc, locals, ui, calc>>

vars == <<core_vars, session_vars>>

(***************************************************************************)
(* Bounds of the model.                                                    *)
(***************************************************************************)
\* significand width of the modelled floating-point format
Prec == 6
\* longest sample set handed to interp_force
MaxLen == 3
\* longest sample set per channel handed to adjuster_authority_percent
MaxPairLen == 2
\* longest sample set per channel handed to compute_table
MaxTableLen == 2
\* number of concurrent browser sessions
MaxSessions == 2

(***************************************************************************)
(* Floating-point layer.                                                   *)
(***************************************************************************)
RECURSIVE Pow2(_)
Pow2(n) == IF n <= 0 THEN 1 ELSE 2 * Pow2(n - 1)

Abs(n) == IF n < 0 THEN -n ELSE n

Sgn(n) == IF n < 0 THEN -1 ELSE IF n = 0 THEN 0 ELSE 1

RECURSIVE BitLen(_)
BitLen(n) == IF n <= 0 THEN 0 ELSE 1 + BitLen(n \div 2)

RECURSIVE ISqrt(_)
ISqrt(n) ==
    IF n < 2 THEN n
    ELSE LET s == 2 * ISqrt(n \div 4)
         IN  IF (s + 1) * (s + 1) <= n THEN s + 1 ELSE s

RECURSIVE Norm(_, _)
Norm(m, e) ==
    IF m = 0 THEN [m |-> 0, e |-> 0]
    ELSE IF m % 2 = 0 THEN Norm(m \div 2, e + 1)
    ELSE [m |-> m, e |-> e]

ZeroDivisionError == [m |-> 0, e |-> 1]

IsFault(a) == a = ZeroDivisionError

\* the float nearest to m * 2^e (plus a positive amount below one unit of m
\* when sticky), ties to even
RoundInt(m, e, sticky) ==
    LET a == Abs(m)
        k == BitLen(a) - Prec
    IN  IF k <= 0 THEN Norm(m, e)
        ELSE LET q    == a \div Pow2(k)
                 r    == a % Pow2(k)
                 half == Pow2(k - 1)
                 up   == \/ r > half
                         \/ r = half /\ (sticky \/ q % 2 = 1)
             IN  Norm(Sgn(m) * (IF up THEN q + 1 ELSE q), e + k)

FromInt(n) == RoundInt(n, 0, FALSE)

\* position of the leading bit: 2^(Top-1) <= |a| < 2^Top
Top(a) == a.e + BitLen(Abs(a.m))

FNeg(a) == IF IsFault(a) THEN a ELSE [m |-> -a.m, e |-> a.e]

FAdd(a, b) ==
    IF IsFault(a) \/ IsFault(b) THEN ZeroDivisionError
    ELSE IF a.m = 0 THEN b
    ELSE IF b.m = 0 THEN a
    ELSE IF Top(a) - Top(b) > Prec + 2 THEN a
    ELSE IF Top(b) - Top(a) > Prec + 2 THEN b
    ELSE LET lo == IF a.e < b.e THEN a.e ELSE b.e
         IN  RoundInt(a.m * Pow2(a.e - lo) + b.m * Pow2(b.e - lo), lo, FALSE)

FSub(a, b) == FAdd(a, FNeg(b))

FMul(a, b) ==
    IF IsFault(a) \/ IsFault(b) THEN ZeroDivisionError
    ELSE RoundInt(a.m * b.m, a.e + b.e, FALSE)

FDiv(a, b) ==
    IF IsFault(a) \/ IsFault(b) THEN ZeroDivisionError
    ELSE IF b.m = 0 THEN ZeroDivisionError
    ELSE IF a.m = 0 THEN a
    ELSE LET s   == Prec + 2 + BitLen(Abs(b.m)) - BitLen(Abs(a.m))
             sh  == IF s < 0 THEN 0 ELSE s
             num == Abs(a.m) * Pow2(sh)
             q   == num \div Abs(b.m)
             r   == num % Abs(b.m)
         IN  RoundInt(Sgn(a.m) * Sgn(b.m) * q, a.e - b.e - sh, r # 0)

FSqrt(a) ==
    IF IsFault(a) THEN a
    ELSE IF a.m <= 0 THEN [m |-> 0, e |-> 0]
    ELSE LET s0  == 2 * (Prec + 2) - BitLen(a.m)
             s1  == IF s0 < 0 THEN 0 ELSE s0
             s   == IF (a.e - s1) % 2 = 0 THEN s1 ELSE s1 + 1
             big == a.m * Pow2(s)
             r   == ISqrt(big)
         IN  RoundInt(r, (a.e - s) \div 2, r * r # big)

\* -1, 0, 1 as a < b, a = b, a > b
Cmp(a, b) ==
    IF a = b THEN 0
    ELSE IF Sgn(a.m) # Sgn(b.m) THEN (IF Sgn(a.m) < Sgn(b.m) THEN -1 ELSE 1)
    ELSE IF Top(a) # Top(b)
         THEN (IF Top(a) < Top(b) THEN -Sgn(a.m) ELSE Sgn(a.m))
    ELSE LET lo == IF a.e < b.e THEN a.e ELSE b.e
         IN  IF a.m * Pow2(a.e - lo) < b.m * Pow2(b.e - lo) THEN -1 ELSE 1

FLe(a, b) == Cmp(a, b) <= 0
FLt(a, b) == Cmp(a, b) < 0
FGe(a, b) == Cmp(a, b) >= 0
FGt(a, b) == Cmp(a, b) > 0

Zero == [m |-> 0, e |-> 0]
One == FromInt(1)

(***************************************************************************)
(* interp_force                                                            *)
(***************************************************************************)
\* list.insert keeping the order of equal keys: p goes after every element
\* whose velocity is <= its own
RECURSIVE InsertByVelocity(_, _)
InsertByVelocity(p, s) ==
    IF s = << >> THEN <<p>>
    ELSE IF FLt(p[1], Head(s)[1]) THEN <<p>> \o s
    ELSE <<Head(s)>> \o InsertByVelocity(p, Tail(s))

\* variant: the points taken in the caller's order
Unsorted(s) == s

\* sorted(pts, key=lambda x: x[0]): a stable sort by velocity
RECURSIVE SortedByVelocity(_)
SortedByVelocity(s) ==
    IF s = << >> THEN << >>
    ELSE InsertByVelocity(s[Len(s)], SortedByVelocity(SubSeq(s, 1, Len(s) - 1)))

\* variant: the points are sorted in place (pts.sort)
PointsAfterSortInPlace(points) == SortedByVelocity(points)

\* the caller's list after interp_force has returned: sorted() builds a new
\* list and leaves its argument as it was
PointsAfterSorted(points) == points

\* variant: the upper end of the segment is not compared
BracketsLowerOnly(q, xs) ==
    {i \in 1..(Len(xs) - 1) : FLe(xs[i], q)}

\* the segments the for loop of interp_force accepts for velocity q
Brackets(q, xs) ==
    {i \in 1..(Len(xs) - 1) : FLe(xs[i], q) /\ FLe(q, xs[i + 1])}

Min(S) == CHOOSE i \in S : \A j \in S : i <= j

\* variant: the two weights exchanged
LerpSwapped(y0, y1, t) == FAdd(FMul(y0, t), FMul(y1, FSub(One, t)))

\* ys[i] * (1 - t) + ys[i + 1] * t
Lerp(y0, y1, t) == FAdd(FMul(y0, FSub(One, t)), FMul(y1, t))

\* variant: the lower guard compares with < instead of <=
interp_force_strict_lower_guard(q, points) ==
    LET sp == SortedByVelocity(points)
        n  == Len(sp)
        xs == [i \in 1..n |-> sp[i][1]]
        ys == [i \in 1..n |-> sp[i][2]]
    IN  IF FLt(q, xs[1]) THEN ys[1]
        ELSE IF FGe(q, xs[n]) THEN ys[n]
        ELSE IF Brackets(q, xs) # {}
             THEN LET i == Min(Brackets(q, xs))
                      t == FDiv(FSub(q, xs[i]), FSub(xs[i + 1], xs[i]))
                  IN  Lerp(ys[i], ys[i + 1], t)
        ELSE ys[n]

interp_force(q, points) ==
    LET sp == SortedByVelocity(points)
        n  == Len(sp)
        xs == [i \in 1..n |-> sp[i][1]]
        ys == [i \in 1..n |-> sp[i][2]]
    IN  IF FLe(q, xs[1]) THEN ys[1]
        ELSE IF FGe(q, xs[n]) THEN ys[n]
        ELSE IF Brackets(q, xs) # {}
             THEN LET i == Min(Brackets(q, xs))
                      t == FDiv(FSub(q, xs[i]), FSub(xs[i + 1], xs[i]))
                  IN  Lerp(ys[i], ys[i + 1], t)
        ELSE ys[n]

(***************************************************************************)
(* adjuster_authority_percent, critical_damping_target, area_mm2,          *)
(* pressure_bar                                                            *)
(***************************************************************************)
\* float literals of the source, rounded to the format as a Python literal is
F2     == FromInt(2)
F100   == FromInt(100)
F1000  == FromInt(1000)
F1e5   == FromInt(100000)
F1e_6  == FDiv(One, [m |-> 15625, e |-> 6])
F1e_9  == FDiv(One, [m |-> 1953125, e |-> 9])
\* math.pi: pi * 2^29 = 1686629713.06...
MathPi == RoundInt(1686629713, -29, TRUE)

\* variant: only a negative full force is caught
adjuster_authority_percent_negative_only(vref, adj_pts, f_pts) ==
    LET adj  == interp_force(vref, adj_pts)
        full == interp_force(vref, f_pts)
    IN  IF FLt(full, Zero) THEN Zero
        ELSE FMul(F100, FDiv(adj, full))

adjuster_authority_percent(vref, adj_pts, f_pts) ==
    LET adj  == interp_force(vref, adj_pts)
        full == interp_force(vref, f_pts)
    IN  IF FLe(full, Zero) THEN Zero
        ELSE FMul(F100, FDiv(adj, full))

critical_damping_target(zeta, spring_rate_n_per_mm, mass_kg, velocity_mps) ==
    LET k == FMul(spring_rate_n_per_mm, F1000)
    IN  IF FLe(k, Zero) \/ FLe(mass_kg, Zero) THEN Zero
        ELSE LET ccrit == FMul(F2, FSqrt(FMul(k, mass_kg)))
                 c     == FMul(zeta, ccrit)
             IN  FMul(c, velocity_mps)

area_mm2(d_mm) ==
    LET r == FDiv(d_mm, F2)
    IN  FMul(FMul(MathPi, r), r)

\* variant: N/mm^2 returned unconverted
pressure_bar_megapascal(force_n, area_mm2_val) ==
    IF FLe(area_mm2_val, Zero) THEN Zero
    ELSE FDiv(force_n, area_mm2_val)

\* variant: no guard on the area
pressure_bar_unguarded(force_n, area_mm2_val) ==
    LET pa == FDiv(force_n, FMul(area_mm2_val, F1e_6))
    IN  FDiv(pa, F1e5)

pressure_bar(force_n, area_mm2_val) ==
    IF FLe(area_mm2_val, Zero) THEN Zero
    ELSE LET pa == FDiv(force_n, FMul(area_mm2_val, F1e_6))
         IN  FDiv(pa, F1e5)

(***************************************************************************)
(* compute_table                                                           *)
(***************************************************************************)
\* the least integer >= a, for a float a
CeilToInt(a) ==
    IF a.m = 0 THEN 0
    ELSE IF a.e >= 0 THEN a.m * Pow2(a.e)
    ELSE IF Top(a) <= 0 THEN (IF a.m > 0 THEN 1 ELSE 0)
    ELSE -((-a.m) \div Pow2(-a.e))

\* the greatest integer <= a
FloorToInt(a) ==
    IF a.m = 0 THEN 0
    ELSE IF a.e >= 0 THEN a.m * Pow2(a.e)
    ELSE IF Top(a) <= 0 THEN (IF a.m > 0 THEN 0 ELSE -1)
    ELSE a.m \div Pow2(-a.e)

\* variant: the length truncated instead of rounded up
ArangeLenTruncated(start, stop, step) ==
    LET n == FloorToInt(FDiv(FSub(stop, start), step))
    IN  IF n < 0 THEN 0 ELSE n

\* numpy.arange(start, stop, step) on floats: ceil((stop - start) / step)
\* values, the first two start and start + step, the i-th (from 0)
\* start + i * ((start + step) - start)
ArangeLen(start, stop, step) ==
    LET n == CeilToInt(FDiv(FSub(stop, start), step))
    IN  IF n < 0 THEN 0 ELSE n

Arange(start, stop, step) ==
    LET next  == FAdd(start, step)
        delta == FSub(next, start)
    IN  [i \in 1..ArangeLen(start, stop, step) |->
            IF i = 1 THEN start
            ELSE IF i = 2 THEN next
            ELSE FAdd(start, FMul(FromInt(i - 1), delta))]

TableRow(adj_pts, f_pts, label, zeta, spring_rate, mass_kg, vel) ==
    LET adj  == interp_force(vel, adj_pts)
        full == interp_force(vel, f_pts)
        pct  == IF FLe(full, Zero) THEN Zero
                ELSE FDiv(FMul(F100, adj), full)
        z_force == critical_damping_target(zeta, spring_rate, mass_kg, vel)
    IN  [mode |-> label, velocity |-> vel, adj |-> adj, full |-> full,
         pct |-> pct, z_force |-> z_force]

RECURSIVE TableRows(_, _, _, _, _, _, _)
TableRows(adj_pts, f_pts, label, zeta, spring_rate, mass_kg, velocities) ==
    IF velocities = << >> THEN << >>
    ELSE LET vel  == Head(velocities)
             rest == TableRows(adj_pts, f_pts, label, zeta, spring_rate,
                               mass_kg, Tail(velocities))
         IN  IF vel = Zero THEN rest
             ELSE <<TableRow(adj_pts, f_pts, label, zeta, spring_rate,
                             mass_kg, vel)>> \o rest

compute_table(adj_pts, f_pts, label, zeta, spring_rate, mass_kg, v_max, v_step) ==
    TableRows(adj_pts, f_pts, label, zeta, spring_rate, mass_kg,
              Arange(Zero, FAdd(v_max, F1e_9), v_step))

(***************************************************************************)
(* Inputs.                                                                 *)
(***************************************************************************)
RECURSIVE SeqsUpTo(_, _)
SeqsUpTo(S, n) ==
    IF n = 0 THEN {<< >>}
    ELSE LET shorter == SeqsUpTo(S, n - 1)
         IN  shorter \cup {Append(s, p) : s \in shorter, p \in S}

NonEmptySeqs(S, n) == SeqsUpTo(S, n) \ {<< >>}

SampleVelocities == {FromInt(0), FromInt(1), FromInt(3)}
SampleForces     == {FromInt(0), FromInt(5), FromInt(11)}
QueryVelocities  ==
    {FromInt(0), FDiv(FromInt(1), FromInt(2)), FromInt(1), FromInt(2),
     FDiv(FromInt(5), FromInt(2)), FromInt(3), FromInt(4)}

SamplePoints == {<<a, b>> : a \in SampleVelocities, b \in SampleForces}
SampleSets == NonEmptySeqs(SamplePoints, MaxLen)

\* the two channels: adjuster-only forces and full forces (zero and negative
\* full forces included)
PairVelocities == {FromInt(0), FromInt(3)}
AdjForces      == {FromInt(5), FromInt(7)}
FullForces     == {FromInt(-4), FromInt(0), FromInt(7)}
AdjPoints  == {<<a, b>> : a \in PairVelocities, b \in AdjForces}
FullPoints == {<<a, b>> : a \in PairVelocities, b \in FullForces}
VrefVelocities == {FromInt(0), FromInt(1), FromInt(2), FromInt(3), FromInt(4)}
\* the sample points of the tables
TableAdjPoints  == {<<FromInt(0), FromInt(5)>>, <<FromInt(3), FromInt(7)>>}
TableFullPoints == {<<FromInt(0), FromInt(7)>>, <<FromInt(3), FromInt(-4)>>}

Diameters == {FromInt(-10), FromInt(-1), FromInt(0), FromInt(1), FromInt(10),
              FromInt(46)}
Areas     == {FromInt(-2), FromInt(0), FromInt(1), FromInt(3), FromInt(5),
              FromInt(10), FromInt(1664), area_mm2(FromInt(10)),
              area_mm2(FromInt(46))}
Forces    == {FromInt(-3)} \cup Areas

Zetas       == {FromInt(0), FDiv(FromInt(3), FromInt(10))}
SpringRates == {FromInt(-1), FromInt(0), FromInt(60)}
Masses      == {FromInt(-1), FromInt(0), FromInt(75)}
\* (zeta, spring rate, mass) of the tables
DampingInputs == {<<FDiv(FromInt(3), FromInt(10)), FromInt(60), FromInt(75)>>,
                  <<FDiv(FromInt(3), FromInt(10)), FromInt(0), FromInt(75)>>,
                  <<FromInt(0), FromInt(60), FromInt(0)>>}

\* velocity grids are taken at the scale of the 1e-9 tolerance of
\* compute_table, where the format resolves it: 2^-27 is about 7.45e-9
GridUnit == [m |-> 1, e |-> -27]
VMaxes == {GridUnit, FMul(F2, GridUnit), FMul(FromInt(3), GridUnit)}
VSteps == {FDiv(GridUnit, F2), GridUnit, [m |-> 33, e |-> -32],
           FMul(F2, GridUnit)}
Labels == {"Compression", "Rebound"}

NoArgs == [label |-> "", zeta |-> Zero, spring_rate |-> Zero,
           mass_kg |-> Zero, v_max |-> Zero, v_step |-> Zero]

(***************************************************************************)
(* Browser sessions: unlock, e-mail capture and the customer log.          *)
(* A Python str is a sequence of one-character strings.                    *)
(***************************************************************************)
\* browser sessions served by the one Streamlit process
Sessions == 1..MaxSessions

RECURSIVE LStrip(_)
LStrip(s) ==
    IF s # << >> /\ Head(s) = " " THEN LStrip(Tail(s)) ELSE s

RECURSIVE RStrip(_)
RStrip(s) ==
    IF s # << >> /\ s[Len(s)] = " " THEN RStrip(SubSeq(s, 1, Len(s) - 1)) ELSE s

\* str.strip()
Strip(s) == RStrip(LStrip(s))

\* c in s
Contains(s, c) == \E i \in 1..Len(s) : s[i] = c

\* what a user can paste as subscription id or find in the query string
SubscriptionInputs == {<< >>, <<" ">>, <<" ", "I", " ">>}

\* the subscription_id the PayPal approval redirect puts in the query string
QueryInputs == {<<" ", "I", " ">>}

\* what a user can type into the e-mail field
EmailInputs == {<< >>, <<"a", "@", "b">>, <<" ", "a", "@", "b", ".", "c", " ">>}

Pages == {"Home", "Tools", "Terms", "Privacy"}

CurveModels == {"Quadratic", "Piecewise-linear"}

\* st.session_state of a fresh session: no key set, .get gives the defaults
FreshSession == [unlocked |-> FALSE, subscription_id |-> << >>, email_saved |-> FALSE]

\* st.session_state after is_unlocked() has looked at the query string
is_unlocked_state(ss, qp) ==
    IF Strip(qp) # << >>
    THEN [ss EXCEPT !.subscription_id = Strip(qp), !.unlocked = TRUE]
    ELSE ss

\* the value is_unlocked() returns
is_unlocked(ss, qp) == is_unlocked_state(ss, qp).unlocked

\* variant: the pasted text is tested without strip()
ManualUnlockAcceptedUnstripped(manual) == manual # << >>

\* the "Unlock using Subscription ID" button of gate_paypal_ui accepts manual
ManualUnlockAccepted(manual) == Strip(manual) # << >>

\* st.session_state after the button of gate_paypal_ui was handled
gate_paypal_ui_state(ss, manual) ==
    IF ManualUnlockAccepted(manual)
    THEN [ss EXCEPT !.subscription_id = Strip(manual), !.unlocked = TRUE]
    ELSE ss

\* the check of require_email_capture on the typed address
EmailRejected(email) == ~Contains(email, "@") \/ ~Contains(email, ".")

\* customers.csv: exists tells whether the file is there, rows are its lines
NoFile == [exists |-> FALSE, rows |-> << >>]

HeaderRow == <<"timestamp", "email", "subscription_id">>

\* the row of one customer; the timestamp is the time of the call
DataRow(email, subscription_id) == <<"isoformat", email, subscription_id>>

\* what save_customer_email has written when the file is closed
WrittenRows(new_file, email, subscription_id) ==
    IF new_file THEN <<HeaderRow, DataRow(email, subscription_id)>>
    ELSE <<DataRow(email, subscription_id)>>

\* the locals of a script run that is inside save_customer_email
NoLocals == [new_file |-> FALSE, email |-> << >>, subscription_id |-> << >>,
             page |-> "Home"]

\* what a session shows before its first script run
NoPage == {}

\* the sidebar and form values of the Tools page
ToolsInputs ==
    {[rod_mm |-> FromInt(10), body_mm |-> FromInt(46), vref |-> q,
      adj |-> <<<<FromInt(0), FromInt(5)>>, <<FromInt(1), FromInt(5)>>,
                <<FromInt(3), FromInt(11)>>>>,
      full |-> <<<<FromInt(0), FromInt(7)>>, <<FromInt(1), FromInt(11)>>,
                 <<FromInt(3), FromInt(11)>>>>,
      zeta |-> FDiv(FromInt(3), FromInt(10)), spring_rate |-> FromInt(60),
      mass_kg |-> FromInt(75), v_max |-> FromInt(3), v_step |-> One] :
        q \in {F2}}

\* nothing computed: the calculators were not reached
NoCalc == [curve_model |-> "", evaluator |-> "", pct |-> Zero,
           adj_force |-> Zero, full_force |-> Zero, p_adj |-> Zero,
           p_full |-> Zero, table |-> << >>]

\* the Compression tab of render_tools: every force is evaluated by
\* interp_force, directly or inside adjuster_authority_percent and
\* compute_table; curve_model is read from the selectbox and not used
CompressionTab(curve_model, inp) ==
    LET a_rod      == area_mm2(inp.rod_mm)
        a_body     == area_mm2(inp.body_mm)
        adj_force  == interp_force(inp.vref, inp.adj)
        full_force == interp_force(inp.vref, inp.full)
    IN  [curve_model |-> curve_model,
         evaluator   |-> "interp_force",
         pct         |-> adjuster_authority_percent(inp.vref, inp.adj, inp.full),
         adj_force   |-> adj_force,
         full_force  |-> full_force,
         p_adj       |-> pressure_bar(adj_force, a_rod),
         p_full      |-> pressure_bar(full_force, a_body),
         table       |-> compute_table(inp.adj, inp.full, "Compression", inp.zeta,
                                       inp.spring_rate, inp.mass_kg, inp.v_max,
                                       inp.v_step)]

\* the Compression tab for every state of the Tools widgets
Calculators ==
    {CompressionTab(cm, inp) : cm \in CurveModels, inp \in ToolsInputs}

\* what require_email_capture shows when no address is saved yet and the
\* "Save email" button was not pressed or the address was rejected
EmailForm(clicked, email) ==
    IF clicked /\ EmailRejected(email) THEN {"email_form", "email_error"}
    ELSE {"email_form"}

\* require_email_capture goes on to save_customer_email
SaveStarts(ss, clicked, email) ==
    ss.unlocked /\ ~ss.email_saved /\ clicked /\ ~EmailRejected(email)

\* what render_tools shows after the call of require_email_capture, whose
\* return value it drops
ToolsBody == {"sidebar_inputs", "calculators"}

\* what render_home shows of an unlocked session besides the e-mail form
HomeBody == {"unlocked_ok", "go_to_tools"}

\* what both pages show of a locked session
LockedBody == {"locked_warning", "paypal_gate"}


(***************************************************************************)
(* State machine: one action per call of a core function.                  *)
(***************************************************************************)
Init ==
    /\ op = "none"
    /\ v = Zero
    /\ pts = << >>
    /\ full_pts = << >>
    /\ x = Zero
    /\ y = Zero
    /\ targs = NoArgs
    /\ ret = Zero
    /\ rows = << >>
    /\ caller_pts = <<<< >>, << >>>>
    /\ query_params = [s \in Sessions |-> << >>]
    /\ session_state = [s \in Sessions |-> FreshSession]
    /\ customers_csv = NoFile
    /\ pc = [s \in Sessions |-> "idle"]
    /\ locals = [s \in Sessions |-> NoLocals]
    /\ ui = [s \in Sessions |-> NoPage]
    /\ calc = [s \in Sessions |-> NoCalc]

\* a call is made from the idle state of a script run
InterpForce ==
    /\ op = "none"
    /\ \E q \in QueryVelocities, s \in SampleSets :
           /\ op' = "interp_force"
           /\ v' = q
           /\ pts' = s
           /\ ret' = interp_force(q, s)
           /\ full_pts' = << >>
           /\ x' = Zero
           /\ y' = Zero
           /\ targs' = NoArgs
           /\ rows' = << >>
           /\ caller_pts' = <<PointsAfterSorted(s), << >>>>
           /\ UNCHANGED session_vars

AdjusterAuthorityPercent ==
    /\ op = "none"
    /\ \E q \in VrefVelocities,
          a \in NonEmptySeqs(AdjPoints, MaxPairLen),
          f \in NonEmptySeqs(FullPoints, MaxPairLen) :
           /\ op' = "adjuster_authority_percent"
           /\ v' = q
           /\ pts' = a
           /\ full_pts' = f
           /\ ret' = adjuster_authority_percent(q, a, f)
           /\ x' = Zero
           /\ y' = Zero
           /\ targs' = NoArgs
           /\ rows' = << >>
           /\ caller_pts' = <<PointsAfterSorted(a), PointsAfterSorted(f)>>
           /\ UNCHANGED session_vars

CriticalDampingTarget ==
    /\ op = "none"
    /\ \E z \in Zetas, k \in SpringRates, m \in Masses, q \in VrefVelocities :
           /\ op' = "critical_damping_target"
           /\ v' = q
           /\ targs' = [NoArgs EXCEPT !.zeta = z, !.spring_rate = k,
                                      !.mass_kg = m]
           /\ ret' = critical_damping_target(z, k, m, q)
           /\ pts' = << >>
           /\ full_pts' = << >>
           /\ x' = Zero
           /\ y' = Zero
           /\ rows' = << >>
           /\ caller_pts' = <<<< >>, << >>>>
           /\ UNCHANGED session_vars

AreaMm2 ==
    /\ op = "none"
    /\ \E d \in Diameters :
           /\ op' = "area_mm2"
           /\ x' = d
           /\ ret' = area_mm2(d)
           /\ v' = Zero
           /\ pts' = << >>
           /\ full_pts' = << >>
           /\ y' = Zero
           /\ targs' = NoArgs
           /\ rows' = << >>
           /\ caller_pts' = <<<< >>, << >>>>
           /\ UNCHANGED session_vars

PressureBar ==
    /\ op = "none"
    /\ \E f \in Forces, a \in Areas :
           /\ op' = "pressure_bar"
           /\ x' = f
           /\ y' = a
           /\ ret' = pressure_bar(f, a)
           /\ v' = Zero
           /\ pts' = << >>
           /\ full_pts' = << >>
           /\ targs' = NoArgs
           /\ rows' = << >>
           /\ caller_pts' = <<<< >>, << >>>>
           /\ UNCHANGED session_vars

ComputeTable ==
    /\ op = "none"
    /\ \E a \in NonEmptySeqs(TableAdjPoints, MaxTableLen),
          f \in NonEmptySeqs(TableFullPoints, MaxTableLen),
          l \in Labels, d \in DampingInputs, vm \in VMaxes, vs \in VSteps :
           /\ op' = "compute_table"
           /\ pts' = a
           /\ full_pts' = f
           /\ targs' = [label |-> l, zeta |-> d[1], spring_rate |-> d[2],
                        mass_kg |-> d[3], v_max |-> vm, v_step |-> vs]
           /\ rows' = compute_table(a, f, l, d[1], d[2], d[3], vm, vs)
           /\ v' = Zero
           /\ x' = Zero
           /\ y' = Zero
           /\ ret' = Zero
           /\ caller_pts' = <<PointsAfterSorted(a), PointsAfterSorted(f)>>
           /\ UNCHANGED session_vars

\* the script run ends and the next one starts with nothing computed
Rerun ==
    /\ op # "none"
    /\ op' = "none"
    /\ v' = Zero
    /\ pts' = << >>
    /\ full_pts' = << >>
    /\ x' = Zero
    /\ y' = Zero
    /\ targs' = NoArgs
    /\ ret' = Zero
    /\ rows' = << >>
    /\ caller_pts' = <<<< >>, << >>>>
    /\ UNCHANGED session_vars

\* the browser opens the app with a subscription_id in the query string, as
\* the PayPal approval redirect does, before the first script run
OpenSession(s) ==
    /\ pc[s] = "idle"
    /\ ui[s] = NoPage
    /\ query_params[s] = << >>
    /\ \E qp \in QueryInputs :
           query_params' = [query_params EXCEPT ![s] = qp]
    /\ UNCHANGED <<session_state, customers_csv, pc, locals, ui, calc>>
    /\ UNCHANGED core_vars

\* the part of a page a run shows below the unlock section
PageBody(page) == IF page = "Tools" THEN ToolsBody ELSE HomeBody

\* one script run of session s on the Home or the Tools page, up to its end
\* or up to the first statement of save_customer_email.  seen is the
\* subscription_id get_query_params returns, clicked the button
\* pressed, manual and email the text fields, tab the Compression tab for
\* the state of the Tools widgets.
\* A manual unlock ends in rerun(): the page is run again with no button.
PageRun(s, page, seen, clicked, manual, email, tab) ==
    LET s1    == is_unlocked_state(session_state[s], seen)
        s2    == IF ~s1.unlocked /\ clicked = "unlock"
                 THEN gate_paypal_ui_state(s1, manual) ELSE s1
        save  == s1.unlocked /\ clicked = "save"
    IN  /\ session_state' = [session_state EXCEPT ![s] = s2]
        /\ IF ~s2.unlocked
           THEN /\ ui' = [ui EXCEPT ![s] = LockedBody]
                /\ calc' = [calc EXCEPT ![s] = NoCalc]
                /\ UNCHANGED <<pc, locals>>
           ELSE IF SaveStarts(s2, save, email)
           THEN /\ pc' = [pc EXCEPT ![s] = "exists_checked"]
                /\ locals' = [locals EXCEPT ![s] =
                                 [new_file |-> ~customers_csv.exists,
                                  email |-> Strip(email),
                                  subscription_id |-> s2.subscription_id,
                                  page |-> page]]
                /\ ui' = [ui EXCEPT ![s] =
                             (IF page = "Home" THEN {"unlocked_ok"} ELSE {})
                             \cup {"email_form"}]
                /\ calc' = [calc EXCEPT ![s] = NoCalc]
           ELSE /\ ui' = [ui EXCEPT ![s] =
                             (IF s2.email_saved THEN {} ELSE EmailForm(save, email))
                             \cup PageBody(page)]
                /\ calc' = [calc EXCEPT ![s] = tab]
                /\ UNCHANGED <<pc, locals>>
        /\ UNCHANGED <<query_params, customers_csv>>
        /\ UNCHANGED core_vars

\* the subscription_id get_query_params returns in a run of session s: the
\* query string keeps it (set_query_params updates the page key only; where
\* the older API replaces the query string before is_unlocked reads it, the
\* session behaves as one opened without subscription_id)
SeenBy(s) == {query_params[s]}

\* the pages that call is_unlocked
GatedPages == {"Home", "Tools"}

\* render_home, no button pressed
RunHome(s) ==
    /\ pc[s] = "idle"
    /\ \E seen \in SeenBy(s) :
           PageRun(s, "Home", seen, "none", << >>, << >>, NoCalc)

\* render_tools, no button pressed
RunTools(s) ==
    /\ pc[s] = "idle"
    /\ \E seen \in SeenBy(s), tab \in Calculators :
           PageRun(s, "Tools", seen, "none", << >>, << >>, tab)

\* the Compression tabs a run of page can show
TabsOf(page) == IF page = "Tools" THEN Calculators ELSE {NoCalc}

\* the page session s shows, when it is one of the two that show the e-mail
\* form
ShownPage(s) == IF "calculators" \in ui[s] THEN "Tools" ELSE "Home"

\* the run after "Unlock using Subscription ID" was pressed; the locked Home
\* and Tools pages show the same
UnlockClick(s) ==
    /\ pc[s] = "idle"
    /\ "paypal_gate" \in ui[s]
    /\ \E page \in GatedPages, seen \in SeenBy(s),
          manual \in SubscriptionInputs :
        \E tab \in TabsOf(page) :
           PageRun(s, page, seen, "unlock", manual, << >>, tab)

\* the run after "Save email" was pressed on the page shown
SaveClick(s) ==
    /\ pc[s] = "idle"
    /\ "email_form" \in ui[s]
    /\ \E seen \in SeenBy(s), email \in EmailInputs,
          tab \in TabsOf(ShownPage(s)) :
           PageRun(s, ShownPage(s), seen, "save", << >>, email, tab)

\* render_terms and render_privacy: text only, is_unlocked is not called
RunStatic(s) ==
    /\ pc[s] = "idle"
    /\ ui' = [ui EXCEPT ![s] = {"text"}]
    /\ calc' = [calc EXCEPT ![s] = NoCalc]
    /\ UNCHANGED <<query_params, session_state, customers_csv, pc, locals>>
    /\ UNCHANGED core_vars

\* save_customer_email, out.open("a"): the file is there from now on
SaveOpen(s) ==
    /\ pc[s] = "exists_checked"
    /\ pc' = [pc EXCEPT ![s] = "opened"]
    /\ customers_csv' = [customers_csv EXCEPT !.exists = TRUE]
    /\ UNCHANGED <<query_params, session_state, locals, ui, calc>>
    /\ UNCHANGED core_vars

\* save_customer_email, the end of the with block: the rows written through
\* the csv writer reach the file when it is closed; then
\* require_email_capture sets email_saved and the run shows the rest of the
\* page
SaveClose(s) ==
    /\ pc[s] = "opened"
    /\ pc' = [pc EXCEPT ![s] = "idle"]
    /\ customers_csv' = [customers_csv EXCEPT !.rows =
           @ \o WrittenRows(locals[s].new_file, locals[s].email,
                            locals[s].subscription_id)]
    /\ session_state' = [session_state EXCEPT ![s].email_saved = TRUE]
    /\ ui' = [ui EXCEPT ![s] = @ \cup {"saved_success"}
                                 \cup PageBody(locals[s].page)]
    /\ \E tab \in TabsOf(locals[s].page) :
           calc' = [calc EXCEPT ![s] = tab]
    /\ locals' = [locals EXCEPT ![s] = NoLocals]
    /\ UNCHANGED query_params
    /\ UNCHANGED core_vars

Next ==
    \/ InterpForce
    \/ AdjusterAuthorityPercent
    \/ CriticalDampingTarget
    \/ AreaMm2
    \/ PressureBar
    \/ ComputeTable
    \/ Rerun
    \/ \E s \in Sessions :
           \/ OpenSession(s)
           \/ RunHome(s)
           \/ RunTools(s)
           \/ UnlockClick(s)
           \/ SaveClick(s)
           \/ RunStatic(s)
           \/ SaveOpen(s)
           \/ SaveClose(s)

Spec == Init /\ [][Next]_vars

\* the calls of interp_force alone
NextInterp ==
    \/ InterpForce
    \/ Rerun

SpecInterp == Init /\ [][NextInterp]_vars

\* the calls of the scalar metrics
NextMetrics ==
    \/ AdjusterAuthorityPercent
    \/ CriticalDampingTarget
    \/ AreaMm2
    \/ PressureBar
    \/ Rerun

SpecMetrics == Init /\ [][NextMetrics]_vars

\* the calls of compute_table alone
NextTable ==
    \/ ComputeTable
    \/ Rerun

SpecTable == Init /\ [][NextTable]_vars

\* the script runs of the sessions, interleaved at the file operations
NextSessions ==
    \E s \in Sessions :
        \/ OpenSession(s)
        \/ RunHome(s)
        \/ RunTools(s)
        \/ UnlockClick(s)
        \/ SaveClick(s)
        \/ RunStatic(s)
        \/ SaveOpen(s)
        \/ SaveClose(s)

SpecSessions == Init /\ [][NextSessions]_vars

\* the session whose Tools page makes the calls of the core functions
Caller == 1

\* the Tools page of the caller shows the calculators, its e-mail address
\* saved in an earlier run and written to customers.csv
CallerShowsTools ==
    /\ ui[Caller] = ToolsBody
    /\ session_state[Caller].email_saved
    /\ calc[Caller].curve_model = "Quadratic"

\* the script runs of one session up to the Tools page, then the calls of the
\* core functions that page makes; a session runs one script at a time
NextPurity ==
    \/ /\ op = "none"
       /\ \/ RunHome(Caller)
          \/ RunTools(Caller)
          \/ UnlockClick(Caller)
          \/ SaveClick(Caller)
          \/ RunStatic(Caller)
    \/ SaveOpen(Caller)
    \/ SaveClose(Caller)
    \/ /\ CallerShowsTools
       /\ \/ InterpForce
          \/ AdjusterAuthorityPercent
          \/ CriticalDampingTarget
          \/ AreaMm2
          \/ PressureBar
          \/ ComputeTable
    \/ Rerun

SpecPurity == Init /\ [][NextPurity]_vars

(***************************************************************************)
(* Properties of interp_force (checked under SpecInterp).                  *)
(***************************************************************************)
Called(name) == op = name

SampleVelocitiesOf(s) == {s[i][1] : i \in 1..Len(s)}

MinVelocity(s) ==
    CHOOSE a \in SampleVelocitiesOf(s) : \A b \in SampleVelocitiesOf(s) : FLe(a, b)

MaxVelocity(s) ==
    CHOOSE a \in SampleVelocitiesOf(s) : \A b \in SampleVelocitiesOf(s) : FGe(a, b)

ForcesAt(s, a) == {s[i][2] : i \in {j \in 1..Len(s) : s[j][1] = a}}

\* C1 as stated: whenever interp_force is queried at the velocity of a sample
\* point (x_i, y_i) of S, it returns exactly y_i, duplicate velocities allowed.
C1_ExactAtEverySample ==
    Called("interp_force") =>
        \A i \in 1..Len(pts) : v = pts[i][1] => ret = pts[i][2]

\* C1 amended: whenever interp_force is queried at the velocity of a sample
\* point (x_i, y_i) whose velocity is not shared by a point of S with a
\* different force, it returns exactly y_i.
C1_ExactAtUnambiguousSample ==
    Called("interp_force") =>
        \A i \in 1..Len(pts) :
            (v = pts[i][1] /\ ForcesAt(pts, v) = {pts[i][2]}) => ret = pts[i][2]

\* an interior sample of an unsorted three-point set with three forces is hit
C1_Witness ==
    /\ Called("interp_force")
    /\ Len(pts) = 3
    /\ v = pts[1][1]
    /\ FLt(pts[3][1], v) /\ FLt(v, pts[2][1])
    /\ Cardinality({pts[1][2], pts[2][2], pts[3][2]}) = 3
    /\ ret = pts[1][2]

\* C2: for a query at or below the minimum sample velocity interp_force
\* returns the force of a minimum-velocity sample (the first of them in the
\* caller's order), for a query at or above the maximum the force of a
\* maximum-velocity sample (the last of them when the query is above the
\* minimum); it never raises, and the value is a sample's force, not a
\* default zero.
C2_FlatExtrapolation ==
    Called("interp_force") =>
        LET lo == MinVelocity(pts)
            hi == MaxVelocity(pts)
            firstLo == Min({i \in 1..Len(pts) : pts[i][1] = lo})
            lastHi  == CHOOSE i \in 1..Len(pts) :
                          /\ pts[i][1] = hi
                          /\ \A j \in 1..Len(pts) : pts[j][1] = hi => j <= i
        IN  /\ ~IsFault(ret)
            /\ FLe(v, lo) => ret = pts[firstLo][2]
            /\ FGe(v, hi) => ret \in ForcesAt(pts, hi)
            /\ (FGe(v, hi) /\ FGt(v, lo)) => ret = pts[lastHi][2]

\* a query strictly above the range of an unsorted set returns the non-zero
\* force of the maximum-velocity sample, which is not the last point given
C2_Witness ==
    /\ Called("interp_force")
    /\ Len(pts) = 3
    /\ FGt(v, MaxVelocity(pts))
    /\ pts[1][1] = MaxVelocity(pts)
    /\ FLt(pts[2][1], pts[1][1]) /\ FLt(pts[3][1], pts[1][1])
    /\ pts[3][2] # pts[1][2]
    /\ ret = pts[1][2]
    /\ ret # Zero

\* exact (unrounded) sum, and exact scaling by a power of two
XAdd(a, b) ==
    LET lo == IF a.e < b.e THEN a.e ELSE b.e
    IN  Norm(a.m * Pow2(a.e - lo) + b.m * Pow2(b.e - lo), lo)

Scale2(a, k) == IF a.m = 0 THEN a ELSE [m |-> a.m, e |-> a.e + k]

FAbs(a) == [m |-> Abs(a.m), e |-> a.e]
FMax(a, b) == IF FGe(a, b) THEN a ELSE b
FMin(a, b) == IF FLe(a, b) THEN a ELSE b

\* the velocity-adjacent pairs of the sorted samples that contain q
AdjacentPairs(q, s) ==
    LET sp == SortedByVelocity(s)
    IN  {<<sp[i], sp[i + 1]>> : i \in {j \in 1..(Len(sp) - 1) :
                                       FLe(sp[j][1], q) /\ FLe(q, sp[j + 1][1])}}

\* y_i * (1 - t) + y_{i+1} * t with t = (q - x_i) / (x_{i+1} - x_i), every
\* operation rounded
SegmentValue(q, pr) ==
    LET t == FDiv(FSub(q, pr[1][1]), FSub(pr[2][1], pr[1][1]))
    IN  FAdd(FMul(pr[1][2], FSub(One, t)), FMul(pr[2][2], t))

StrictlyInside(q, s) == FLt(MinVelocity(s), q) /\ FLt(q, MaxVelocity(s))

\* C3 as stated: for a query strictly between the minimum and the maximum
\* sample velocity the result is y_i*(1-t) + y_{i+1}*t on a velocity-adjacent
\* pair containing the query, and it lies between y_i and y_{i+1}.
C3_InteriorBetweenNeighbours ==
    (Called("interp_force") /\ StrictlyInside(v, pts)) =>
        \E pr \in AdjacentPairs(v, pts) :
            /\ ret = SegmentValue(v, pr)
            /\ FLe(FMin(pr[1][2], pr[2][2]), ret)
            /\ FLe(ret, FMax(pr[1][2], pr[2][2]))

\* C3 amended: the result is y_i*(1-t) + y_{i+1}*t as evaluated in floating
\* point on a velocity-adjacent pair containing the query, and it lies
\* between y_i and y_{i+1} up to rounding: within 4 * 2^-Prec *
\* max(|y_i|, |y_{i+1}|) of that interval.
C3_InteriorNearNeighbours ==
    (Called("interp_force") /\ StrictlyInside(v, pts)) =>
        \E pr \in AdjacentPairs(v, pts) :
            LET tol == Scale2(FMax(FAbs(pr[1][2]), FAbs(pr[2][2])), 2 - Prec)
            IN  /\ ret = SegmentValue(v, pr)
                /\ FLe(XAdd(FMin(pr[1][2], pr[2][2]), FNeg(tol)), ret)
                /\ FLe(ret, XAdd(FMax(pr[1][2], pr[2][2]), tol))

\* an interior query between different forces given out of order, whose t
\* and 1 - t are rounded (they do not add up to 1)
C3_Witness ==
    /\ Called("interp_force")
    /\ Len(pts) = 2
    /\ FLt(pts[2][1], v) /\ FLt(v, pts[1][1])
    /\ pts[1][2] # pts[2][2]
    /\ LET t == FDiv(FSub(v, pts[2][1]), FSub(pts[1][1], pts[2][1]))
       IN  XAdd(FSub(One, t), t) # One
    /\ FLt(FMin(pts[1][2], pts[2][2]), ret)
    /\ FLt(ret, FMax(pts[1][2], pts[2][2]))

\* C4: when all points of the sample set share one velocity, every query
\* velocity gets the force this call returned.
C4_DegenerateSingleForce ==
    (Called("interp_force") /\ Cardinality(SampleVelocitiesOf(pts)) = 1) =>
        /\ ~IsFault(ret)
        /\ \A q \in QueryVelocities : interp_force(q, pts) = ret

(***************************************************************************)
(* Properties of the scalar metrics (checked under SpecMetrics).           *)
(***************************************************************************)
\* C5: adjuster_authority_percent returns 100 * (adj / full), adj and full
\* the two channels interpolated at v_ref, when full > 0, and exactly 0 when
\* full <= 0; it never raises.
C5_AuthorityPercentOrZero ==
    Called("adjuster_authority_percent") =>
        LET adj  == interp_force(v, pts)
            full == interp_force(v, full_pts)
        IN  /\ ~IsFault(ret)
            /\ FGt(full, Zero) => ret = FMul(FromInt(100), FDiv(adj, full))
            /\ FLe(full, Zero) => ret = Zero

\* the full channel interpolates to a negative force between a negative and
\* a positive sample, the adjuster channel to a positive one
C5_Witness ==
    /\ Called("adjuster_authority_percent")
    /\ StrictlyInside(v, full_pts)
    /\ FLt(interp_force(v, full_pts), Zero)
    /\ FGt(interp_force(v, pts), Zero)
    /\ \E i \in 1..Len(full_pts) : FGt(full_pts[i][2], Zero)
    /\ ret = Zero

Ten == FromInt(10)

\* C6 as stated: a force numerically equal to a positive area gives 1.0 bar.
C6_OneBar ==
    (Called("pressure_bar") /\ x = y /\ FGt(y, Zero)) => ret = One

\* C6 amended: a force numerically equal to a positive area gives 10 bar
\* (1 N/mm^2 = 1 MPa = 10 bar) up to the rounding of the five operations and
\* literals involved: within a relative 6 * 2^-Prec of 10.
C6_TenBar ==
    (Called("pressure_bar") /\ x = y /\ FGt(y, Zero)) =>
        LET tol == [m |-> 60, e |-> -Prec]
        IN  /\ FLe(XAdd(Ten, FNeg(tol)), ret)
            /\ FLe(ret, XAdd(Ten, tol))

\* 78 N (the modelled area of a 10 mm rod) on that area
C6_Witness ==
    /\ Called("pressure_bar")
    /\ x = y
    /\ y = area_mm2(Ten)
    /\ FGt(ret, FromInt(9)) /\ FLt(ret, FromInt(11))

\* C7: pressure_bar returns 0 for every force when the area is <= 0, never
\* raising, and for a positive area doubling the force doubles the result.
C7_ZeroAreaAndLinearity ==
    Called("pressure_bar") =>
        /\ ~IsFault(ret)
        /\ FLe(y, Zero) => ret = Zero
        /\ FGt(y, Zero) => pressure_bar(FMul(F2, x), y) = FMul(F2, ret)

\* a non-zero force on a negative area
C7_Witness ==
    /\ Called("pressure_bar")
    /\ FLt(y, Zero)
    /\ x # Zero
    /\ ret = Zero

\* C8: area_mm2 returns pi * (d/2)^2 for d > 0 and 0 for every d <= 0.
C8_AreaZeroForNonPositive ==
    Called("area_mm2") =>
        /\ FGt(x, Zero) =>
               ret = FMul(FMul(MathPi, FDiv(x, FromInt(2))), FDiv(x, FromInt(2)))
        /\ FLe(x, Zero) => ret = Zero

(***************************************************************************)
(* Properties of compute_table (checked under SpecTable).                  *)
(***************************************************************************)
RowVelocity(i) == rows[i].velocity

\* the k-th velocity of the grid: k * v_step
GridVelocity(k) == FMul(FromInt(k), targs.v_step)

Reorderings(s) ==
    {[i \in 1..Len(s) |-> s[p[i]]] :
        p \in {f \in [1..Len(s) -> 1..Len(s)] :
                  \A i, j \in 1..Len(s) : i # j => f[i] # f[j]}}

\* C13: for every non-empty sample set and every reordering of its points,
\* interp_force returns for the query velocity the value this call returned.
C13_OrderIndependent ==
    Called("interp_force") =>
        \A s \in Reorderings(pts) : interp_force(v, s) = ret

\* the sorted velocities of the sample set s
SortedVelocities(s) ==
    [i \in 1..Len(s) |-> SortedByVelocity(s)[i][1]]

\* the query velocity q passes both guards of interp_force and reaches the loop
ReachesLoop(q, s) ==
    /\ ~FLe(q, SortedVelocities(s)[1])
    /\ ~FGe(q, SortedVelocities(s)[Len(s)])

\* the width x_{i+1} - x_i of the first segment the loop accepts for q
DivisorWidth(q, s) ==
    LET xs == SortedVelocities(s)
        i  == Min(Brackets(q, xs))
    IN  FSub(xs[i + 1], xs[i])

\* C17: for every non-empty sample set, repeated velocities included, and
\* every query velocity, a query that reaches the loop finds a segment, the
\* width it divides by is strictly positive, and the call returns a number
\* (no ZeroDivisionError), so the return after the loop is never reached.
C17_TotalOnNonEmpty ==
    Called("interp_force") =>
        /\ ~IsFault(ret)
        /\ ReachesLoop(v, pts) =>
               /\ Brackets(v, SortedVelocities(pts)) # {}
               /\ FGt(DivisorWidth(v, pts), Zero)

\* a query that reaches the loop of a sample set whose lowest velocity is
\* repeated, so the first segment of the sorted points has width zero
C17_Witness ==
    /\ Called("interp_force")
    /\ Len(pts) = 3
    /\ ReachesLoop(v, pts)
    /\ SortedVelocities(pts)[1] = SortedVelocities(pts)[2]
    /\ pts[1][1] # pts[2][1]

(***************************************************************************)
(* Properties of the sessions (checked under SpecSessions).                *)
(***************************************************************************)
\* session s shows the calculators or the sidebar inputs of the Tools page
ShowsTools(s) == ui[s] \cap ToolsBody # {}

\* C11: the evaluator of the forces shown follows the selected curve model:
\* the Interpolator (interp_force) for Piecewise-linear, the Curve Fitter
\* for Quadratic; the table and Adjuster Authority % come from it.
C11_EvaluatorFollowsCurveModel ==
    \A s \in Sessions :
        ShowsTools(s) =>
            /\ calc[s].curve_model \in CurveModels
            /\ calc[s].evaluator = "interp_force"
                   <=> calc[s].curve_model = "Piecewise-linear"

\* C14: in every run of the Tools page of an unlocked session the
\* calculators and sidebar inputs are shown only if an e-mail address was
\* saved in the session; before that only the e-mail form is shown.
C14_CalculatorsOnlyAfterEmail ==
    \A s \in Sessions :
        /\ ShowsTools(s) => session_state[s].email_saved
        /\ (session_state[s].unlocked /\ ~session_state[s].email_saved
            /\ "email_form" \in ui[s]) => ui[s] \cap ToolsBody = {}

\* the subscription ids that can arrive: the query string or the pasted text
\* of a session, stripped, when something is left
ArrivedIds(s) ==
    ({Strip(query_params[s])} \cup {Strip(m) : m \in SubscriptionInputs}) \ {<< >>}

\* C15, state part: the calculators and sidebar inputs are shown only by an
\* unlocked session, and an unlocked session holds a subscription id that
\* arrived and is non-empty after strip()
GateHolds ==
    \A s \in Sessions :
        /\ ShowsTools(s) => session_state[s].unlocked
        /\ session_state[s].unlocked =>
               /\ session_state[s].subscription_id \in ArrivedIds(s)
               /\ Strip(session_state[s].subscription_id) # << >>
        /\ ~session_state[s].unlocked => session_state[s].subscription_id = << >>

\* C15, step part: a session becomes unlocked only in a step that takes the
\* id from its query string or, with the unlock button on screen, from the
\* pasted text; an unlocked session stays unlocked
GateSteps ==
    \A s \in Sessions :
        /\ session_state[s].unlocked => session_state'[s].unlocked
        /\ (~session_state[s].unlocked /\ session_state'[s].unlocked) =>
               \/ /\ Strip(query_params[s]) # << >>
                  /\ session_state'[s].subscription_id = Strip(query_params[s])
               \/ /\ "paypal_gate" \in ui[s]
                  /\ session_state'[s].subscription_id \in ArrivedIds(s)

\* C15: access gating of the Tools page, for every session and every step.
C15_AccessGating == [](GateHolds) /\ [][GateSteps]_vars

\* one session unlocked by the pasted id shows the calculators while another,
\* opened with no usable id, shows the locked page
C15_Witness ==
    \E s, t \in Sessions :
        /\ session_state[s].unlocked
        /\ Strip(query_params[s]) = << >>
        /\ "calculators" \in ui[s]
        /\ ~session_state[t].unlocked
        /\ ui[t] = LockedBody

\* the data rows of customers.csv
DataRows == {i \in 1..Len(customers_csv.rows) : customers_csv.rows[i] # HeaderRow}

\* the sessions whose call of save_customer_email has returned
Saved == {s \in Sessions : session_state[s].email_saved}

\* C16: whatever the interleaving of the sessions, once a call of
\* save_customer_email has returned customers.csv starts with the header row,
\* holds it exactly once, and holds one data row per returned call, at most
\* one per session.
C16_SerializedCustomerLog ==
    LET log == customers_csv.rows
    IN  /\ Saved # {} =>
               /\ log # << >>
               /\ log[1] = HeaderRow
               /\ \A i \in 2..Len(log) : log[i] # HeaderRow
        /\ Cardinality(DataRows) = Cardinality(Saved)
        /\ Cardinality(DataRows) <= Cardinality(Sessions)

(***************************************************************************)
(* Purity of the core functions (checked under SpecPurity).                *)
(***************************************************************************)
CoreFunctions == {"interp_force", "adjuster_authority_percent",
                  "critical_damping_target", "area_mm2", "pressure_bar",
                  "compute_table"}

\* the caller's sample-point sequences are, after the call, the sequences
\* that were passed: same points, same order
CallerPointsKept ==
    op \in CoreFunctions => caller_pts = <<pts, full_pts>>

\* a call of a core function leaves the session state of every session, the
\* query strings, what the pages show and customers.csv as they were
CoreCallFrame ==
    (op = "none" /\ op' \in CoreFunctions) => UNCHANGED session_vars

====
